---- MODULE Spec2Model ----
(***************************************************************************)
(* Model of the resume parser: application/parser.py                       *)
(* (OptimizedResumeParser) and application/server.py (the Flask routes).   *)
(*                                                                         *)
(* A Python string is a TLA+ string; a Python value that json.loads can    *)
(* return is a record of one shape (JStr, JInt, ...).                      *)
(* Four specifications share the variables:                                *)
(*   SpecContact  validate_and_format_contact on one input                 *)
(*   SpecPre      the loop of preprocess_resume_text, one line per step    *)
(*   SpecParse    query_resume_fast, one step per stage of its try block   *)
(*   SpecServer   two concurrent /api/parse-resume requests                *)
(***************************************************************************)
EXTENDS Integers, Sequences, FiniteSets, TLC

VARIABLES
    contact_in,     \* SpecContact: how the input was written: digits and style
    contact_no,     \* SpecContact: the argument of validate_and_format_contact
    contact_ret,    \* SpecContact: its return value
    cstage,         \* SpecContact: "called" | "returned" | "idle"
    src_lines,      \* SpecPre: the lines the text was written from, each with its kind
    text,           \* SpecPre: the argument of preprocess_resume_text
    lines,          \* SpecPre: text.split('\n')
    idx,            \* SpecPre: 1-based index of the line the for loop takes next
    relevant_lines, \* SpecPre: the list of kept lines
    kept,           \* SpecPre: the indices of the kept lines, in the order kept
    current_section_important,  \* SpecPre: the in-section flag
    pre_out,        \* SpecPre: the returned string
    pstage,         \* SpecPre: "loop" | "returned" | "idle"
    qstage,         \* SpecParse: the stage query_resume_fast has reached
    pdf_str,        \* SpecParse: the text pdf2string_optimized returned
    processed_text, \* SpecParse: preprocess_resume_text(pdf_str)
    response_in,    \* SpecParse: how the completion output was written
    response_text,  \* SpecParse: the completion output
    resume,         \* SpecParse: the local `resume`
    q_exc,          \* SpecParse: the exception raised in the try block, and where
    q_ret,          \* SpecParse: the returned record
    now,            \* SpecServer: int(time.time())
    fs,             \* SpecServer: the files of UPLOAD_FOLDER, path -> content
    req,            \* SpecServer: each request, as it was sent
    rq              \* SpecServer: each request's handler: stage, locals, response

contactVars == <<contact_in, contact_no, contact_ret, cstage>>
preVars == <<src_lines, text, lines, idx, relevant_lines, kept,
             current_section_important, pre_out, pstage>>
parseVars == <<qstage, pdf_str, processed_text, response_in, response_text,
               resume, q_exc, q_ret>>
serverVars == <<now, fs, req, rq>>
vars == <<contactVars, preVars, parseVars, serverVars>>

notContact == <<preVars, parseVars, serverVars>>
notPre     == <<contactVars, parseVars, serverVars>>
notParse   == <<contactVars, preVars, serverVars>>
notServer  == <<contactVars, preVars, parseVars>>

IdleContact ==
    /\ contact_in = [digits |-> "", style |-> [pre |-> "", sep |-> ""]]
    /\ contact_no = ""
    /\ contact_ret = ""
    /\ cstage = "idle"

IdlePre ==
    /\ src_lines = <<>>
    /\ text = ""
    /\ lines = <<>>
    /\ idx = 0
    /\ relevant_lines = <<>>
    /\ kept = <<>>
    /\ current_section_important = FALSE
    /\ pre_out = ""
    /\ pstage = "idle"

NoException == [type |-> "none", where |-> "", msg |-> ""]

NoResponseIn ==
    [pad |-> "", open |-> "", close |-> "",
     body |-> [kind |-> "none", m |-> [k \in {} |-> ""], txt |-> ""]]

IdleServer ==
    /\ now = 0
    /\ fs = [f \in {} |-> ""]
    /\ req = <<>>
    /\ rq = <<>>

IdleParse ==
    /\ qstage = "idle"
    /\ pdf_str = ""
    /\ processed_text = ""
    /\ response_in = NoResponseIn
    /\ response_text = ""
    /\ resume = [t |-> "null", s |-> "", kv |-> <<>>]
    /\ q_exc = NoException
    /\ q_ret = [t |-> "null", s |-> "", kv |-> <<>>]

----------------------------------------------------------------------------
(* Characters and Python string operations.  A Python string is a TLA+     *)
(* string; Len, SubSeq, \o, Head and Tail act on it as on any sequence.    *)

Digit == {"0", "1", "2", "3", "4", "5", "6", "7", "8", "9"}

\* str.strip() with no argument strips these (the ones the model writes).
PyWhitespace == {" ", "\n", "\t", "\r"}

\* s[i], 1-based
CharAt(s, i) == SubSeq(s, i, i)

RECURSIVE LStrip(_)
LStrip(s) ==
    IF s = "" THEN ""
    ELSE IF Head(s) \in PyWhitespace THEN LStrip(Tail(s)) ELSE s

RECURSIVE RStrip(_)
RStrip(s) ==
    IF s = "" THEN ""
    ELSE IF CharAt(s, Len(s)) \in PyWhitespace THEN RStrip(SubSeq(s, 1, Len(s) - 1)) ELSE s

\* s.strip()
Strip(s) == RStrip(LStrip(s))

\* s.startswith(p)
StartsWith(s, p) == Len(s) >= Len(p) /\ SubSeq(s, 1, Len(p)) = p

\* s[a:-b] for a, b >= 0 (a Python slice: empty when the bounds cross)
SliceFromTo(s, a, b) ==
    IF a >= Len(s) - b THEN "" ELSE SubSeq(s, a + 1, Len(s) - b)

\* p in s, for strings (substring test)
Contains(s, p) ==
    \E k \in 0..(Len(s) - Len(p)) : SubSeq(s, k + 1, k + Len(p)) = p

UpperLetters == "ABCDEFGHIJKLMNOPQRSTUVWXYZ"
LowerLetters == "abcdefghijklmnopqrstuvwxyz"

LowerOf ==
    [c \in {CharAt(UpperLetters, k) : k \in 1..Len(UpperLetters)} |->
        CharAt(LowerLetters, CHOOSE k \in 1..Len(UpperLetters) : CharAt(UpperLetters, k) = c)]

LowerChar(c) == IF c \in DOMAIN LowerOf THEN LowerOf[c] ELSE c

\* s.lower()
RECURSIVE Lower(_)
Lower(s) == IF s = "" THEN "" ELSE LowerChar(Head(s)) \o Lower(Tail(s))

----------------------------------------------------------------------------
(* Values json.loads returns, all of one record shape.                     *)
(* An int keeps its decimal text (Python ints are unbounded).              *)

JStr(s)  == [t |-> "str",  s |-> s,   kv |-> <<>>]
JInt(s)  == [t |-> "int",  s |-> s,   kv |-> <<>>]
JTrue    == [t |-> "bool", s |-> "1", kv |-> <<>>]
JFalse   == [t |-> "bool", s |-> "0", kv |-> <<>>]
JNull    == [t |-> "null", s |-> "",  kv |-> <<>>]
\* a list holds its items as pairs [k |-> "", v |-> item]
JList(items) == [t |-> "list", s |-> "", kv |-> items]
\* a dict holds its pairs [k |-> key, v |-> value] in insertion order
JDict(pairs) == [t |-> "dict", s |-> "", kv |-> pairs]

\* Python truthiness: `not v`
PyNot(v) ==
    CASE v.t = "str"  -> v.s = ""
      [] v.t = "int"  -> v.s = "0"
      [] v.t = "bool" -> v = JFalse
      [] v.t = "null" -> TRUE
      [] OTHER        -> v.kv = <<>>

\* ', '.join(parts)
RECURSIVE JoinComma(_)
JoinComma(parts) ==
    IF parts = <<>> THEN ""
    ELSE IF Len(parts) = 1 THEN parts[1]
    ELSE parts[1] \o ", " \o JoinComma(Tail(parts))

\* repr(v) of a parsed value (strings without quotes or escapes)
RECURSIVE PyRepr(_)
PyRepr(v) ==
    CASE v.t = "str"  -> "'" \o v.s \o "'"
      [] v.t = "int"  -> v.s
      [] v.t = "bool" -> IF v = JTrue THEN "True" ELSE "False"
      [] v.t = "null" -> "None"
      [] v.t = "list" ->
            "[" \o JoinComma([k \in 1..Len(v.kv) |-> PyRepr(v.kv[k].v)]) \o "]"
      [] OTHER ->
            "{" \o JoinComma([k \in 1..Len(v.kv) |->
                        "'" \o v.kv[k].k \o "': " \o PyRepr(v.kv[k].v)]) \o "}"

\* str(v)
PyStr(v) == IF v.t = "str" THEN v.s ELSE PyRepr(v)

\* type(v).__name__
PyTypeName(v) ==
    CASE v.t = "null" -> "NoneType"
      [] OTHER        -> v.t

\* k in d, d[k], d.get(k), d[k] = x for a dict d
DictHas(d, k) == \E n \in 1..Len(d.kv) : d.kv[n].k = k

DictGet(d, k) == d.kv[CHOOSE n \in 1..Len(d.kv) : d.kv[n].k = k].v

DictGetOr(d, k, default) == IF DictHas(d, k) THEN DictGet(d, k) ELSE default

DictSet(d, k, x) ==
    IF DictHas(d, k)
    THEN JDict([n \in 1..Len(d.kv) |-> IF d.kv[n].k = k THEN [k |-> k, v |-> x] ELSE d.kv[n]])
    ELSE JDict(Append(d.kv, [k |-> k, v |-> x]))

DictKeys(d) == {d.kv[n].k : n \in 1..Len(d.kv)}

----------------------------------------------------------------------------
(* json.loads, for JSON text without string escapes and without fractions  *)
(* or exponents (no input of the model holds a backslash, and none holds   *)
(* '.', 'e' or 'E' next to a digit outside a string).                      *)

JsonWs == {" ", "\t", "\n", "\r"}

\* s[i] or "" past the end
At(s, i) == IF i \in 1..Len(s) THEN SubSeq(s, i, i) ELSE ""

\* s.startswith(p, i - 1)
StartsWithAt(s, i, p) == i + Len(p) - 1 <= Len(s) /\ SubSeq(s, i, i + Len(p) - 1) = p

RECURSIVE SkipWs(_, _)
SkipWs(s, i) == IF At(s, i) \in JsonWs THEN SkipWs(s, i + 1) ELSE i

ParseFail == [ok |-> FALSE, v |-> JNull, i |-> 0]
ParseOk(v, i) == [ok |-> TRUE, v |-> v, i |-> i]

\* index of the closing quote of a string whose content starts at j, or 0
RECURSIVE StringEnd(_, _)
StringEnd(s, j) ==
    IF j > Len(s) THEN 0
    ELSE IF At(s, j) = "\"" THEN j
    ELSE IF At(s, j) \in {"\\", "\n", "\t", "\r"} THEN 0
    ELSE StringEnd(s, j + 1)

ParseString(s, i) ==
    LET e == StringEnd(s, i + 1)
    IN  IF e = 0 THEN ParseFail ELSE ParseOk(JStr(SubSeq(s, i + 1, e - 1)), e + 1)

\* first index from j on that holds no digit
RECURSIVE DigitsEnd(_, _)
DigitsEnd(s, j) == IF At(s, j) \in Digit THEN DigitsEnd(s, j + 1) ELSE j

\* -?(0|[1-9][0-9]*), the value kept as Python prints the int
ParseNumber(s, i) ==
    LET neg == At(s, i) = "-"
        j   == IF neg THEN i + 1 ELSE i
        e   == IF At(s, j) = "0" THEN j + 1 ELSE DigitsEnd(s, j)
        d   == SubSeq(s, j, e - 1)
    IN  IF e = j THEN ParseFail
        ELSE ParseOk(JInt((IF neg /\ d # "0" THEN "-" ELSE "") \o d), e)

PairsSet(pairs, k, x) == DictSet(JDict(pairs), k, x).kv

RECURSIVE ParseValue(_, _), ParseMembers(_, _, _), ParseElements(_, _, _)

\* the members of an object from the key at j on; acc holds those before it
ParseMembers(s, j, acc) ==
    IF At(s, j) # "\"" THEN ParseFail
    ELSE LET key == ParseString(s, j)
         IN  IF ~key.ok THEN ParseFail
             ELSE LET c == SkipWs(s, key.i)
                  IN  IF At(s, c) # ":" THEN ParseFail
                      ELSE LET val == ParseValue(s, SkipWs(s, c + 1))
                           IN  IF ~val.ok THEN ParseFail
                               ELSE LET e   == SkipWs(s, val.i)
                                        more == PairsSet(acc, key.v.s, val.v)
                                    IN  IF At(s, e) = "," THEN ParseMembers(s, SkipWs(s, e + 1), more)
                                        ELSE IF At(s, e) = "}" THEN ParseOk(JDict(more), e + 1)
                                        ELSE ParseFail

\* the elements of an array from the value at j on
ParseElements(s, j, acc) ==
    LET val == ParseValue(s, j)
    IN  IF ~val.ok THEN ParseFail
        ELSE LET e   == SkipWs(s, val.i)
                 more == Append(acc, [k |-> "", v |-> val.v])
             IN  IF At(s, e) = "," THEN ParseElements(s, SkipWs(s, e + 1), more)
                 ELSE IF At(s, e) = "]" THEN ParseOk(JList(more), e + 1)
                 ELSE ParseFail

ParseValue(s, i) ==
    LET c == At(s, i)
    IN  CASE c = "\"" -> ParseString(s, i)
          [] c = "{"  -> LET j == SkipWs(s, i + 1)
                         IN  IF At(s, j) = "}" THEN ParseOk(JDict(<<>>), j + 1)
                             ELSE ParseMembers(s, j, <<>>)
          [] c = "["  -> LET j == SkipWs(s, i + 1)
                         IN  IF At(s, j) = "]" THEN ParseOk(JList(<<>>), j + 1)
                             ELSE ParseElements(s, j, <<>>)
          [] c \in Digit \cup {"-"} -> ParseNumber(s, i)
          [] c = "t"  -> IF StartsWithAt(s, i, "true") THEN ParseOk(JTrue, i + 4) ELSE ParseFail
          [] c = "f"  -> IF StartsWithAt(s, i, "false") THEN ParseOk(JFalse, i + 5) ELSE ParseFail
          [] c = "n"  -> IF StartsWithAt(s, i, "null") THEN ParseOk(JNull, i + 4) ELSE ParseFail
          [] OTHER    -> ParseFail

\* json.loads(s): ok = FALSE stands for json.JSONDecodeError
JsonLoads(s) ==
    LET r == ParseValue(s, SkipWs(s, 1))
    IN  IF r.ok /\ SkipWs(s, r.i) = Len(s) + 1 THEN [ok |-> TRUE, v |-> r.v]
        ELSE [ok |-> FALSE, v |-> JNull]

----------------------------------------------------------------------------
(* validate_and_format_contact                                             *)

\* re.sub(r'\D', '', s)
RECURSIVE RemoveNonDigits(_)
RemoveNonDigits(s) ==
    IF s = "" THEN ""
    ELSE (IF Head(s) \in Digit THEN Head(s) ELSE "") \o RemoveNonDigits(Tail(s))

ContactTenLen == 10
ContactElevenLen == 11

\* parser.py 84-100 with `digits == 11` accepted whatever the first digit is
ContactDropsAnyLeadingDigit(v) ==
    IF PyNot(v) THEN ""
    ELSE LET digits_only == RemoveNonDigits(PyStr(v))
         IN  IF Len(digits_only) = ContactTenLen THEN digits_only
             ELSE IF Len(digits_only) = ContactElevenLen THEN Tail(digits_only)
             ELSE ""

\* The value returned by validate_and_format_contact(contact_no).
validate_and_format_contact(v) ==
    IF PyNot(v) THEN ""
    ELSE LET digits_only == RemoveNonDigits(PyStr(v))
         IN  IF Len(digits_only) = ContactTenLen THEN digits_only
             ELSE IF Len(digits_only) = ContactElevenLen /\ StartsWith(digits_only, "0")
                  THEN Tail(digits_only)
             ELSE ""

\* ---- inputs of SpecContact: a digit string written in some style ----
MaxDigits == 12

ContactDigitAlphabet == {"0", "7"}

RECURSIVE StringsOfLen(_, _)
StringsOfLen(alphabet, n) ==
    IF n = 0 THEN {""}
    ELSE {s \o c : s \in StringsOfLen(alphabet, n - 1), c \in alphabet}

DigitStrings == UNION {StringsOfLen(ContactDigitAlphabet, n) : n \in 0..MaxDigits}

\* pre: written before the digits; sep: written after every third digit
ContactStyles ==
    { [pre |-> "",   sep |-> ""],
      [pre |-> "+",  sep |-> " "],
      [pre |-> "",   sep |-> "-"],
      [pre |-> " (", sep |-> ") "] }

RECURSIVE WriteDigits(_, _, _)
WriteDigits(d, sep, k) ==
    IF d = "" THEN ""
    ELSE Head(d) \o (IF k % 3 = 0 THEN sep ELSE "") \o WriteDigits(Tail(d), sep, k + 1)

WriteContact(cin) == cin.style.pre \o WriteDigits(cin.digits, cin.style.sep, 1)

InitContact ==
    /\ contact_in \in [digits : DigitStrings, style : ContactStyles]
    /\ contact_no = WriteContact(contact_in)
    /\ contact_ret = ""
    /\ cstage = "called"
    /\ IdlePre /\ IdleParse /\ IdleServer

\* parser.py 84-85: falsy argument
ContactReturnFalsy ==
    /\ cstage = "called"
    /\ PyNot(JStr(contact_no))
    /\ contact_ret' = validate_and_format_contact(JStr(contact_no))
    /\ cstage' = "returned"
    /\ UNCHANGED <<contact_in, contact_no, notContact>>

\* parser.py 91-96: ten digits, or eleven with a leading 0
ContactReturnDigits ==
    /\ cstage = "called"
    /\ ~PyNot(JStr(contact_no))
    /\ validate_and_format_contact(JStr(contact_no)) # ""
    /\ contact_ret' = validate_and_format_contact(JStr(contact_no))
    /\ cstage' = "returned"
    /\ UNCHANGED <<contact_in, contact_no, notContact>>

\* parser.py 97-100: any other digit count; a warning is logged
ContactReturnInvalid ==
    /\ cstage = "called"
    /\ ~PyNot(JStr(contact_no))
    /\ validate_and_format_contact(JStr(contact_no)) = ""
    /\ contact_ret' = validate_and_format_contact(JStr(contact_no))
    /\ cstage' = "returned"
    /\ UNCHANGED <<contact_in, contact_no, notContact>>

NextContact == ContactReturnFalsy \/ ContactReturnDigits \/ ContactReturnInvalid

SpecContact == InitContact /\ [][NextContact]_vars

\* C2: validate_and_format_contact returns the input's digit characters in
\* order when there are exactly 10 of them, the last 10 when there are exactly
\* 11 and the first is 0, and the empty string in every other case; so the
\* result is always exactly 10 digit characters or the empty string.
C2_ContactContract ==
    cstage = "returned" =>
        LET d == contact_in.digits
        IN  /\ Len(d) = 10 => contact_ret = d
            /\ (Len(d) = 11 /\ Head(d) = "0") => contact_ret = Tail(d)
            /\ (Len(d) # 10 /\ ~(Len(d) = 11 /\ Head(d) = "0")) => contact_ret = ""
            /\ \/ contact_ret = ""
               \/ /\ Len(contact_ret) = 10
                  /\ \A k \in 1..10 : CharAt(contact_ret, k) \in Digit

\* an 11-digit number with a leading 0, written with separators, was reduced
C2_Witness ==
    /\ cstage = "returned"
    /\ Len(contact_in.digits) = 11
    /\ Head(contact_in.digits) = "0"
    /\ contact_in.style.sep = "-"
    /\ contact_ret = Tail(contact_in.digits)

----------------------------------------------------------------------------
(* preprocess_resume_text                                                  *)

important_sections ==
    { "education", "experience", "work", "employment", "projects",
      "skills", "contact", "email", "phone", "address", "certificates",
      "certifications", "extracurricular", "activities", "volunteer" }

contact_keywords == {"@", "phone", "email", "linkedin", "github"}

\* line.lower().strip()
LineLower(line) == Strip(Lower(line))

\* any(keyword in line_lower for keyword in ['@', 'phone', ...])
HasContactInfo(line) ==
    LET line_lower == LineLower(line)
    IN  \E keyword \in contact_keywords : Contains(line_lower, keyword)

\* any(section in line_lower for section in important_sections), lower() left out
IsSectionHeaderCaseSensitive(line) ==
    LET line_lower == Strip(line)
    IN  \E section \in important_sections : Contains(line_lower, section)

\* any(section in line_lower for section in important_sections)
IsSectionHeader(line) ==
    LET line_lower == LineLower(line)
    IN  \E section \in important_sections : Contains(line_lower, section)

\* not line.strip()
IsBlank(line) == Strip(line) = ""

\* s.split('\n')
RECURSIVE SplitNL(_)
SplitNL(s) ==
    IF ~Contains(s, "\n") THEN <<s>>
    ELSE LET k == CHOOSE j \in 1..Len(s) :
                    /\ CharAt(s, j) = "\n"
                    /\ \A m \in 1..(j - 1) : CharAt(s, m) # "\n"
         IN  <<SubSeq(s, 1, k - 1)>> \o SplitNL(SubSeq(s, k + 1, Len(s)))

\* '\n'.join(parts)
RECURSIVE JoinNL(_)
JoinNL(parts) ==
    IF parts = <<>> THEN ""
    ELSE IF Len(parts) = 1 THEN parts[1]
    ELSE parts[1] \o "\n" \o JoinNL(Tail(parts))

\* ---- inputs of SpecPre: up to MaxLines lines from a vocabulary ----
MaxLines == 4

\* Each line with what a reader sees in it: a contact marker, a section
\* keyword (possibly inside a longer word), nothing but whitespace.
LineVocabulary ==
    { [s |-> "",                    contact |-> FALSE, section |-> FALSE, blank |-> TRUE],
      [s |-> "  \t",                contact |-> FALSE, section |-> FALSE, blank |-> TRUE],
      [s |-> " Work History",    contact |-> FALSE, section |-> TRUE,  blank |-> FALSE],
      [s |-> "Networks",       contact |-> FALSE, section |-> TRUE,  blank |-> FALSE],
      [s |-> "John@X.io",           contact |-> TRUE,  section |-> FALSE, blank |-> FALSE],
      [s |-> "PHONE 555",  contact |-> TRUE,  section |-> TRUE,  blank |-> FALSE],
      [s |-> "Acme 2020",      contact |-> FALSE, section |-> FALSE, blank |-> FALSE] }

SourceTexts == UNION {[1..n -> LineVocabulary] : n \in 1..MaxLines}

InitPre ==
    /\ src_lines \in SourceTexts
    /\ text = JoinNL([k \in 1..Len(src_lines) |-> src_lines[k].s])
    /\ lines = SplitNL(text)
    /\ idx = 1
    /\ relevant_lines = <<>>
    /\ kept = <<>>
    /\ current_section_important = FALSE
    /\ pre_out = ""
    /\ pstage = "loop"
    /\ IdleContact /\ IdleParse /\ IdleServer

InLoop == pstage = "loop" /\ idx <= Len(lines)

\* parser.py 203-205: a contact line is appended; the flag is not touched
PreKeepContact ==
    /\ InLoop
    /\ HasContactInfo(lines[idx])
    /\ relevant_lines' = Append(relevant_lines, lines[idx])
    /\ kept' = Append(kept, idx)
    /\ idx' = idx + 1
    /\ UNCHANGED <<src_lines, text, lines, current_section_important, pre_out, pstage, notPre>>

\* parser.py 208-211: a section header sets the flag and is appended
PreKeepHeader ==
    /\ InLoop
    /\ ~HasContactInfo(lines[idx])
    /\ IsSectionHeader(lines[idx])
    /\ current_section_important' = TRUE
    /\ relevant_lines' = Append(relevant_lines, lines[idx])
    /\ kept' = Append(kept, idx)
    /\ idx' = idx + 1
    /\ UNCHANGED <<src_lines, text, lines, pre_out, pstage, notPre>>

\* parser.py 214-215: a non-blank line inside an important section is appended
PreKeepBody ==
    /\ InLoop
    /\ ~HasContactInfo(lines[idx])
    /\ ~IsSectionHeader(lines[idx])
    /\ current_section_important /\ ~IsBlank(lines[idx])
    /\ relevant_lines' = Append(relevant_lines, lines[idx])
    /\ kept' = Append(kept, idx)
    /\ idx' = idx + 1
    /\ UNCHANGED <<src_lines, text, lines, current_section_important, pre_out, pstage, notPre>>

\* parser.py 214-219: a non-blank line outside an important section is dropped
PreDropBody ==
    /\ InLoop
    /\ ~HasContactInfo(lines[idx])
    /\ ~IsSectionHeader(lines[idx])
    /\ ~current_section_important /\ ~IsBlank(lines[idx])
    /\ idx' = idx + 1
    /\ UNCHANGED <<src_lines, text, lines, relevant_lines, kept,
                   current_section_important, pre_out, pstage, notPre>>

\* parser.py 218-219 without the reset of the flag
PreBlankKeepsFlag ==
    /\ InLoop
    /\ ~HasContactInfo(lines[idx])
    /\ ~IsSectionHeader(lines[idx])
    /\ IsBlank(lines[idx])
    /\ idx' = idx + 1
    /\ UNCHANGED <<src_lines, text, lines, relevant_lines, kept,
                   current_section_important, pre_out, pstage, notPre>>

\* parser.py 214-219: a blank line is dropped and resets the flag
PreBlank ==
    /\ InLoop
    /\ ~HasContactInfo(lines[idx])
    /\ ~IsSectionHeader(lines[idx])
    /\ IsBlank(lines[idx])
    /\ current_section_important' = FALSE
    /\ idx' = idx + 1
    /\ UNCHANGED <<src_lines, text, lines, relevant_lines, kept, pre_out, pstage, notPre>>

\* parser.py 221: the loop is over; return '\n'.join(relevant_lines)
PreReturn ==
    /\ pstage = "loop"
    /\ idx > Len(lines)
    /\ pre_out' = JoinNL(relevant_lines)
    /\ pstage' = "returned"
    /\ UNCHANGED <<src_lines, text, lines, idx, relevant_lines, kept,
                   current_section_important, notPre>>

NextPre ==
    \/ PreKeepContact
    \/ PreKeepHeader
    \/ PreKeepBody
    \/ PreDropBody
    \/ PreBlank
    \/ PreReturn

SpecPre == InitPre /\ [][NextPre]_vars

KeptSet == {kept[k] : k \in 1..Len(kept)}

\* the line at index h is followed, up to index j, by non-blank lines only
NoBlankBetween(h, j) == \A m \in (h + 1)..j : ~src_lines[m].blank

\* C9 as stated: every line containing a section-header keyword, whatever else
\* it contains, is kept and sets the in-section flag, so that every non-blank
\* line between it and the next blank line is kept.
C9_AnyKeywordLineOpensSection ==
    pstage \in {"loop", "returned"} =>
        /\ (idx > 1 /\ src_lines[idx - 1].section) =>
                (current_section_important /\ (idx - 1) \in KeptSet)
        /\ pstage = "returned" =>
                \A h \in 1..Len(src_lines) : \A j \in h..Len(src_lines) :
                    (src_lines[h].section /\ NoBlankBetween(h, j)) => j \in KeptSet

\* C9 amended: every line containing a section-header keyword and no contact
\* marker is kept and sets the in-section flag, so that every non-blank line
\* between it and the next blank line is kept.
C9_HeaderWithoutContactOpensSection ==
    pstage \in {"loop", "returned"} =>
        /\ (idx > 1 /\ src_lines[idx - 1].section /\ ~src_lines[idx - 1].contact) =>
                (current_section_important /\ (idx - 1) \in KeptSet)
        /\ pstage = "returned" =>
                \A h \in 1..Len(src_lines) : \A j \in h..Len(src_lines) :
                    (src_lines[h].section /\ ~src_lines[h].contact /\ NoBlankBetween(h, j))
                        => j \in KeptSet

\* a header whose keyword sits inside a longer, capitalised word opened a
\* section and the plain line after it was kept
C9_Witness ==
    /\ pstage = "returned"
    /\ Len(src_lines) >= 3
    /\ src_lines[1].s = "Acme 2020"
    /\ src_lines[2].s = "Networks"
    /\ src_lines[3].s = "Acme 2020"
    /\ 1 \notin KeptSet /\ 2 \in KeptSet /\ 3 \in KeptSet

\* a section-header line (a line with a section keyword) occurs before index i
HeaderBefore(i) == \E h \in 1..(i - 1) : src_lines[h].section

\* a blank line occurs before index i with no section-header line after it
BlankThenNoHeaderBefore(i) ==
    \E b \in 1..(i - 1) :
        /\ src_lines[b].blank
        /\ \A h \in (b + 1)..(i - 1) : ~src_lines[h].section

\* C10: the output is an in-order subsequence of the input lines that holds
\* every line with a contact marker, and no line without contact marker and
\* section keyword that is blank, or comes before the first section-header
\* line, or after a blank line with no section-header line in between.
C10_OutputIsFilteredSubsequence ==
    pstage = "returned" =>
        /\ Len(lines) = Len(src_lines)
        /\ Len(relevant_lines) = Len(kept)
        /\ \A k \in 1..Len(kept) :
                /\ kept[k] \in 1..Len(src_lines)
                /\ relevant_lines[k] = src_lines[kept[k]].s
                /\ k > 1 => kept[k - 1] < kept[k]
        /\ pre_out = JoinNL(relevant_lines)
        /\ \A i \in 1..Len(src_lines) :
                /\ src_lines[i].contact => i \in KeptSet
                /\ ( /\ ~src_lines[i].contact
                     /\ ~src_lines[i].section
                     /\ \/ src_lines[i].blank
                        \/ ~HeaderBefore(i)
                        \/ BlankThenNoHeaderBefore(i) ) => i \notin KeptSet

\* a header, a body line that is kept, a blank line, and the same body line
\* after the blank, which is dropped
C10_Witness ==
    /\ pstage = "returned"
    /\ Len(src_lines) = 4
    /\ src_lines[1].s = " Work History"
    /\ src_lines[2].s = "Acme 2020"
    /\ src_lines[3].blank
    /\ src_lines[4].s = "Acme 2020"
    /\ kept = <<1, 2>>

----------------------------------------------------------------------------
(* query_resume_fast                                                       *)

\* preprocess_resume_text as one call: the loop of parser.py 199-219
RECURSIVE PreLoop(_, _, _)
PreLoop(rest, flag, acc) ==
    IF rest = <<>> THEN acc
    ELSE LET line == Head(rest)
         IN  IF HasContactInfo(line) THEN PreLoop(Tail(rest), flag, Append(acc, line))
             ELSE IF IsSectionHeader(line) THEN PreLoop(Tail(rest), TRUE, Append(acc, line))
             ELSE PreLoop(Tail(rest),
                          IF IsBlank(line) THEN FALSE ELSE flag,
                          IF flag /\ ~IsBlank(line) THEN Append(acc, line) ELSE acc)

preprocess_resume_text(t) == JoinNL(PreLoop(SplitNL(t), FALSE, <<>>))

\* The three backquotes of a code fence.  A TLA+ string cannot hold a
\* backquote, so the model writes the character as ~ (no input holds a ~
\* of its own).
FENCE == "~~~"

\* parser.py 254-258: strip(), then the fence markers cut off by position
StripFence(t) ==
    LET stripped == Strip(t)
    IN  IF StartsWith(stripped, FENCE \o "json") THEN SliceFromTo(stripped, 7, 3)
        ELSE IF StartsWith(stripped, FENCE) THEN SliceFromTo(stripped, 3, 3)
        ELSE stripped

profile_fields == <<"firstname", "lastname", "email", "contactno", "country", "city">>

\* parser.py 270-277 with the last of the four checks forgotten
ArrayFieldsWithoutJobs == <<"certificates", "education", "extracurriculars">>

array_fields == <<"certificates", "education", "extracurriculars", "jobs">>

DeclaredKeys ==
    {profile_fields[k] : k \in 1..Len(profile_fields)}
        \cup {"certificates", "education", "extracurriculars", "jobs"}

Raised(type, where, msg, v) == [exc |-> [type |-> type, where |-> where, msg |-> msg], v |-> v]
Returned(v) == [exc |-> NoException, v |-> v]

\* `field in resume` for a dict (its keys), a list (its items) or a str
PyContains(v, field) ==
    CASE v.t = "dict" -> DictHas(v, field)
      [] v.t = "list" -> \E n \in 1..Len(v.kv) : v.kv[n].v = JStr(field)
      [] OTHER        -> Contains(v.s, field)

\* parser.py 265-277: `if field not in resume: resume[field] = default`
RECURSIVE EnsureEach(_, _, _)
EnsureEach(v, fields, default) ==
    IF fields = <<>> THEN Returned(v)
    ELSE IF v.t \notin {"dict", "list", "str"}
         THEN Raised("TypeError", "query_resume_fast",
                     "argument of type '" \o PyTypeName(v) \o "' is not iterable", v)
    ELSE IF PyContains(v, Head(fields)) THEN EnsureEach(v, Tail(fields), default)
    ELSE IF v.t = "dict" THEN EnsureEach(DictSet(v, Head(fields), default), Tail(fields), default)
    ELSE IF v.t = "list"
         THEN Raised("TypeError", "query_resume_fast",
                     "list indices must be integers or slices, not str", v)
    ELSE Raised("TypeError", "query_resume_fast",
                "'str' object does not support item assignment", v)

EnsureFields(v) ==
    LET profile == EnsureEach(v, profile_fields, JStr(""))
    IN  IF profile.exc.type # "none" THEN profile
        ELSE EnsureEach(profile.v, array_fields, JList(<<>>))

NoStrip(v) ==
    Raised("AttributeError", "validate_and_set_defaults",
           "'" \o PyTypeName(v) \o "' object has no attribute 'strip'", v)

\* parser.py 110-114 for one of city, country:
\* `if not d.get(k) or d.get(k).strip() == "": d[k] = "-"`
DefaultDash(d, k) ==
    LET x == DictGetOr(d, k, JNull)
    IN  IF PyNot(x) THEN Returned(DictSet(d, k, JStr("-")))
        ELSE IF x.t # "str" THEN NoStrip(x)
        ELSE IF Strip(x.s) = "" THEN Returned(DictSet(d, k, JStr("-")))
        ELSE Returned(d)

\* parser.py 102-116 with the whitespace test of 110 and 113 left out
ValidateWithoutStrip(resume_data) ==
    IF resume_data.t # "dict"
    THEN Raised("AttributeError", "validate_and_set_defaults",
                "'" \o PyTypeName(resume_data) \o "' object has no attribute 'get'", resume_data)
    ELSE LET contact == DictSet(resume_data, "contactno",
                            JStr(validate_and_format_contact(
                                    DictGetOr(resume_data, "contactno", JStr("")))))
             city    == IF PyNot(DictGetOr(contact, "city", JNull))
                        THEN DictSet(contact, "city", JStr("-")) ELSE contact
         IN  Returned(IF PyNot(DictGetOr(city, "country", JNull))
                      THEN DictSet(city, "country", JStr("-")) ELSE city)

\* validate_and_set_defaults(resume_data): the dict returned, or what it raises
validate_and_set_defaults(resume_data) ==
    IF resume_data.t # "dict"
    THEN Raised("AttributeError", "validate_and_set_defaults",
                "'" \o PyTypeName(resume_data) \o "' object has no attribute 'get'", resume_data)
    ELSE LET contact == DictSet(resume_data, "contactno",
                            JStr(validate_and_format_contact(
                                    DictGetOr(resume_data, "contactno", JStr("")))))
             city    == DefaultDash(contact, "city")
         IN  IF city.exc.type # "none" THEN city
             ELSE DefaultDash(city.v, "country")

Field(k, v) == [k |-> k, v |-> v]

\* parser.py 286-297 with the error field of 303-315 added
ShellRecordWithError ==
    JDict(<< Field("firstname", JStr("")), Field("lastname", JStr("")),
             Field("email", JStr("")), Field("contactno", JStr("")),
             Field("country", JStr("-")), Field("city", JStr("-")),
             Field("certificates", JList(<<>>)), Field("education", JList(<<>>)),
             Field("extracurriculars", JList(<<>>)), Field("jobs", JList(<<>>)),
             Field("error", JStr("Expecting value")) >>)

\* parser.py 286-297: the record returned on json.JSONDecodeError
ShellRecord ==
    JDict(<< Field("firstname", JStr("")), Field("lastname", JStr("")),
             Field("email", JStr("")), Field("contactno", JStr("")),
             Field("country", JStr("-")), Field("city", JStr("-")),
             Field("certificates", JList(<<>>)), Field("education", JList(<<>>)),
             Field("extracurriculars", JList(<<>>)), Field("jobs", JList(<<>>)) >>)

\* parser.py 303-315: the record returned by `except Exception as e`
ErrorRecord(msg) ==
    JDict(<< Field("firstname", JStr("")), Field("lastname", JStr("")),
             Field("email", JStr("")), Field("contactno", JStr("")),
             Field("country", JStr("-")), Field("city", JStr("-")),
             Field("certificates", JList(<<>>)), Field("education", JList(<<>>)),
             Field("extracurriculars", JList(<<>>)), Field("jobs", JList(<<>>)),
             Field("error", JStr(msg)) >>)

\* parser.py 251-299 on a completion output: the record and what was raised
DecodeAndValidate(t) ==
    LET parsed == JsonLoads(StripFence(t))
    IN  IF ~parsed.ok
        THEN [exc |-> [type |-> "JSONDecodeError", where |-> "json.loads", msg |-> ""],
              v |-> ShellRecord]
        ELSE LET ensured == EnsureFields(parsed.v)
             IN  IF ensured.exc.type # "none"
                 THEN [exc |-> ensured.exc, v |-> ErrorRecord(ensured.exc.msg)]
                 ELSE LET valid == validate_and_set_defaults(ensured.v)
                      IN  IF valid.exc.type # "none"
                          THEN [exc |-> valid.exc, v |-> ErrorRecord(valid.exc.msg)]
                          ELSE valid

\* ---- inputs of SpecParse ----

\* what pdf2string_optimized can return: stripped text of the first pages
PdfTexts == {"", "Notes\njane@x.io\nSkills\nTLA"}

MaxMembers == 2

\* the keys the model lets a completion write, in the order it writes them
KeyOrder == <<"firstname", "contactno", "country", "city", "jobs">>

PlaceTexts == {"\"NY\"", "\"\"", "\" \"", "5", "0", "null", "true", "[]"}

\* the JSON text a completion may give each key
AllowedValues ==
    [k \in {KeyOrder[n] : n \in 1..Len(KeyOrder)} |->
        CASE k = "firstname" -> {"\"A\""}
          [] k = "contactno" -> {"\"(555) 123-4567\"", "\"12\"", "5551234567", "null"}
          [] k = "jobs"      -> {"[{}]"}
          [] OTHER           -> PlaceTexts]

MemberChoices ==
    UNION { {f \in [S -> UNION {AllowedValues[k] : k \in S}] : \A k \in S : f[k] \in AllowedValues[k]}
            : S \in {T \in SUBSET DOMAIN AllowedValues : Cardinality(T) <= MaxMembers} }

\* "k": v, ... for the keys of f from KeyOrder[n] on
RECURSIVE WriteMembers(_, _)
WriteMembers(f, n) ==
    IF n > Len(KeyOrder) THEN <<>>
    ELSE (IF KeyOrder[n] \in DOMAIN f
          THEN <<"\"" \o KeyOrder[n] \o "\": " \o f[KeyOrder[n]]>> ELSE <<>>)
         \o WriteMembers(f, n + 1)

WriteObject(f) == "{" \o JoinComma(WriteMembers(f, 1)) \o "}"

NoMembers == [k \in {} |-> ""]

AllNamesList ==
    "[\"firstname\", \"lastname\", \"email\", \"contactno\", \"country\", \"city\", "
        \o "\"certificates\", \"education\", \"extracurriculars\", \"jobs\"]"

\* kind: "object" (a JSON object), "value" (valid JSON, not an object),
\* "garbage" (not JSON)
Bodies ==
    {[kind |-> "object", m |-> f, txt |-> WriteObject(f)] : f \in MemberChoices}
    \cup {[kind |-> "value", m |-> NoMembers, txt |-> t] :
            t \in {"[]", "5", "null", "\"firstname\"", AllNamesList}}
    \cup {[kind |-> "garbage", m |-> NoMembers, txt |-> t] :
            t \in {"", "not json", "{\"city\": \"NY\""}}

ResponseInputs ==
    [pad : {"", " \n"}, open : {"", FENCE, FENCE \o "json", FENCE \o "js"},
     close : {"", FENCE}, body : Bodies]

WriteResponse(rin) ==
    rin.pad \o rin.open \o (IF rin.open # "" THEN "\n" ELSE "") \o rin.body.txt
        \o (IF rin.close # "" THEN "\n" ELSE "") \o rin.close \o rin.pad

\* what query_completion_optimized returns when the API call raises
ApiErrorIn ==
    [pad |-> "", open |-> "", close |-> "",
     body |-> [kind |-> "api_error", m |-> NoMembers, txt |-> "{}"]]

InitParse ==
    /\ qstage = "start"
    /\ pdf_str = ""
    /\ processed_text = ""
    /\ response_in = NoResponseIn
    /\ response_text = ""
    /\ resume = JNull
    /\ q_exc = NoException
    /\ q_ret = JNull
    /\ IdleContact /\ IdlePre /\ IdleServer

\* the `except Exception as e` of parser.py 301-315
QCaught(exc) ==
    /\ q_exc' = exc
    /\ q_ret' = ErrorRecord(exc.msg)
    /\ qstage' = "returned"

\* parser.py 229: pdf2string_optimized returns the text
QExtract ==
    /\ qstage = "start"
    /\ \E t \in PdfTexts : pdf_str' = t
    /\ qstage' = "extracted"
    /\ UNCHANGED <<processed_text, response_in, response_text, resume, q_exc, q_ret, notParse>>

\* parser.py 229: pdf2string_optimized raises (no such file, not a PDF)
QExtractRaises ==
    /\ qstage = "start"
    /\ QCaught([type |-> "Exception", where |-> "pdf2string_optimized",
                msg |-> "cannot open the PDF"])
    /\ UNCHANGED <<pdf_str, processed_text, response_in, response_text, resume, notParse>>

\* parser.py 232-243: the text is preprocessed, the prompt built and measured
QPreprocess ==
    /\ qstage = "extracted"
    /\ processed_text' = preprocess_resume_text(pdf_str)
    /\ qstage' = "prompted"
    /\ UNCHANGED <<pdf_str, response_in, response_text, resume, q_exc, q_ret, notParse>>

\* parser.py 238: num_tokens_from_string raises
QEstimateRaises ==
    /\ qstage = "extracted"
    /\ QCaught([type |-> "Exception", where |-> "num_tokens_from_string",
                msg |-> "cannot load the encoding"])
    /\ UNCHANGED <<pdf_str, processed_text, response_in, response_text, resume, notParse>>

\* parser.py 245-249, 169-179: the completion answers, with any string
QComplete ==
    /\ qstage = "prompted"
    /\ \E rin \in ResponseInputs :
            /\ response_in' = rin
            /\ response_text' = WriteResponse(rin)
    /\ qstage' = "completed"
    /\ UNCHANGED <<pdf_str, processed_text, resume, q_exc, q_ret, notParse>>

\* parser.py 180-182: the API call raises and "{}" is returned
QCompleteApiError ==
    /\ qstage = "prompted"
    /\ response_in' = ApiErrorIn
    /\ response_text' = "{}"
    /\ qstage' = "completed"
    /\ UNCHANGED <<pdf_str, processed_text, resume, q_exc, q_ret, notParse>>

\* parser.py 254-260: the output is stripped and json.loads returns
QDecode ==
    /\ qstage = "completed"
    /\ LET parsed == JsonLoads(StripFence(response_text))
       IN  /\ parsed.ok
           /\ resume' = parsed.v
    /\ qstage' = "decoded"
    /\ UNCHANGED <<pdf_str, processed_text, response_in, response_text, q_exc, q_ret, notParse>>

\* parser.py 260, 282-299: json.loads raises JSONDecodeError
QDecodeError ==
    /\ qstage = "completed"
    /\ ~JsonLoads(StripFence(response_text)).ok
    /\ q_exc' = [type |-> "JSONDecodeError", where |-> "json.loads", msg |-> ""]
    /\ q_ret' = ShellRecord
    /\ qstage' = "returned"
    /\ UNCHANGED <<pdf_str, processed_text, response_in, response_text, resume, notParse>>

\* parser.py 264-277: the missing fields are added
QEnsure ==
    /\ qstage = "decoded"
    /\ LET ensured == EnsureFields(resume)
       IN  /\ ensured.exc.type = "none"
           /\ resume' = ensured.v
    /\ qstage' = "ensured"
    /\ UNCHANGED <<pdf_str, processed_text, response_in, response_text, q_exc, q_ret, notParse>>

\* parser.py 264-277 on a value that is no dict: TypeError
QEnsureRaises ==
    /\ qstage = "decoded"
    /\ LET ensured == EnsureFields(resume)
       IN  /\ ensured.exc.type # "none"
           /\ QCaught(ensured.exc)
    /\ UNCHANGED <<pdf_str, processed_text, response_in, response_text, resume, notParse>>

\* parser.py 280, 299: validate_and_set_defaults returns, and so does the call
QValidate ==
    /\ qstage = "ensured"
    /\ LET valid == validate_and_set_defaults(resume)
       IN  /\ valid.exc.type = "none"
           /\ resume' = valid.v
           /\ q_ret' = valid.v
    /\ qstage' = "returned"
    /\ UNCHANGED <<pdf_str, processed_text, response_in, response_text, q_exc, notParse>>

\* parser.py 280: validate_and_set_defaults raises AttributeError
QValidateRaises ==
    /\ qstage = "ensured"
    /\ LET valid == validate_and_set_defaults(resume)
       IN  /\ valid.exc.type # "none"
           /\ QCaught(valid.exc)
    /\ UNCHANGED <<pdf_str, processed_text, response_in, response_text, resume, notParse>>

NextParse ==
    \/ QExtract
    \/ QExtractRaises
    \/ QPreprocess
    \/ QEstimateRaises
    \/ QComplete
    \/ QCompleteApiError
    \/ QDecode
    \/ QDecodeError
    \/ QEnsure
    \/ QEnsureRaises
    \/ QValidate
    \/ QValidateRaises

SpecParse == InitParse /\ [][NextParse]_vars

\* the stages of query_resume_fast compose to DecodeAndValidate
StagesAgreeWithCall ==
    (qstage = "returned" /\ response_in.body.kind # "none") =>
        /\ q_ret = DecodeAndValidate(response_text).v
        /\ q_exc = DecodeAndValidate(response_text).exc

\* what the model wrote decodes exactly when it wrote valid JSON, bare or
\* inside a fence the code knows
DecodeSucceedsExactlyWhen ==
    response_in.body.kind # "none" =>
        ( JsonLoads(StripFence(response_text)).ok
          <=> /\ response_in.body.kind # "garbage"
              /\ \/ response_in.open = "" /\ response_in.close = ""
                 \/ response_in.open \in {FENCE, FENCE \o "json"} /\ response_in.close = FENCE )

\* C1: every invocation of query_resume_fast returns a record holding all ten
\* declared keys, whatever happened upstream (extraction raising, the
\* completion failing, malformed JSON, JSON that is no object, an object that
\* omits keys).
C1_EveryReturnHasTenKeys ==
    qstage = "returned" =>
        /\ q_ret.t = "dict"
        /\ DeclaredKeys \subseteq DictKeys(q_ret)
        /\ Cardinality(DeclaredKeys) = 10

\* valid JSON that is not an object was answered with a full record
C1_Witness ==
    /\ qstage = "returned"
    /\ response_in.body.kind = "value"
    /\ q_exc.type = "TypeError"
    /\ DeclaredKeys \subseteq DictKeys(q_ret)

\* the completion output omits field f or gives it an empty or blank string
OmittedOrBlank(f) ==
    \/ f \notin DOMAIN response_in.body.m
    \/ response_in.body.m[f] \in {"\"\"", "\" \""}

\* C3: in every returned record, on every return path, city and country are
\* neither empty nor whitespace-only, and are exactly "-" when the completion
\* output omits the field or gives it an empty or whitespace-only value.
C3_PlacesNeverBlank ==
    qstage = "returned" =>
        \A f \in {"city", "country"} :
            /\ DictHas(q_ret, f)
            /\ DictGet(q_ret, f).t = "str"
            /\ Strip(DictGet(q_ret, f).s) # ""
            /\ OmittedOrBlank(f) => DictGet(q_ret, f) = JStr("-")

\* a decoded object with a blank city and a named country
C3_Witness ==
    /\ qstage = "returned"
    /\ q_exc.type = "none"
    /\ DOMAIN response_in.body.m = {"city", "country"}
    /\ response_in.body.m["city"] = "\" \""
    /\ response_in.body.m["country"] = "\"NY\""
    /\ DictGet(q_ret, "city") = JStr("-")
    /\ DictGet(q_ret, "country") = JStr("NY")

\* C4: whenever the completion output, after trimming and fence stripping, is
\* not valid JSON, the returned record is exactly the shell: four empty
\* strings, "-" for country and city, four empty sequences, no other key.
C4_InvalidJsonGivesShell ==
    ( /\ qstage = "returned"
      /\ response_in.body.kind # "none"
      /\ ~JsonLoads(StripFence(response_text)).ok ) =>
        /\ q_ret.t = "dict"
        /\ DictKeys(q_ret) = DeclaredKeys
        /\ \A f \in {"firstname", "lastname", "email", "contactno"} : DictGet(q_ret, f) = JStr("")
        /\ \A f \in {"country", "city"} : DictGet(q_ret, f) = JStr("-")
        /\ \A f \in {"certificates", "education", "extracurriculars", "jobs"} :
                DictGet(q_ret, f) = JList(<<>>)

\* garbage inside a json fence gave the shell record
C4_Witness ==
    /\ qstage = "returned"
    /\ response_in.body.txt = "not json"
    /\ response_in.open = FENCE \o "json"
    /\ response_in.close = FENCE
    /\ q_exc.type = "JSONDecodeError"
    /\ DictKeys(q_ret) = DeclaredKeys

\* C5 as stated: a JSON object inside a code fence, with or without a
\* language tag, is parsed: its fields keep their values and the other
\* declared fields are defaulted, rather than the shell record being returned.
\* Stated for the objects that give none of contactno, city and country, which
\* normalization leaves as they are.
C5_FencedObjectIsDecoded ==
    ( /\ qstage = "returned"
      /\ response_in.body.kind = "object"
      /\ DOMAIN response_in.body.m \subseteq {"firstname", "jobs"}
      /\ response_in.open # ""
      /\ response_in.close = FENCE ) =>
        /\ DeclaredKeys \subseteq DictKeys(q_ret)
        /\ DictGet(q_ret, "firstname") =
                (IF "firstname" \in DOMAIN response_in.body.m THEN JStr("A") ELSE JStr(""))
        /\ DictGet(q_ret, "jobs") =
                (IF "jobs" \in DOMAIN response_in.body.m
                 THEN JList(<<Field("", JDict(<<>>))>>) ELSE JList(<<>>))

\* C6 as stated: validate_and_set_defaults never raises on a record a JSON
\* parse can produce, whatever the types of contactno, city and country.
C6_NormalizeIsTotal ==
    ~(resume.t = "dict" /\ q_exc.where = "validate_and_set_defaults")

----------------------------------------------------------------------------
(* server.py: POST /api/parse-resume, two requests served by two threads   *)

UPLOAD_FOLDER == "./uploads"
ALLOWED_EXTENSIONS == {"pdf"}

\* filename.rsplit('.', 1)[1], for a filename holding a '.'
RECURSIVE AfterLastDot(_)
AfterLastDot(name) ==
    IF ~Contains(Tail(name), ".") THEN Tail(name) ELSE AfterLastDot(Tail(name))

RECURSIVE DropToFirstDot(_)
DropToFirstDot(name) == IF Head(name) = "." THEN name ELSE DropToFirstDot(Tail(name))

\* server.py 28-30
allowed_file(filename) ==
    /\ Contains(filename, ".")
    /\ Lower(AfterLastDot(DropToFirstDot(filename))) \in ALLOWED_EXTENSIONS

\* werkzeug's secure_filename on ASCII names: path separators become spaces,
\* whitespace runs become "_", characters outside [A-Za-z0-9_.-] are removed,
\* leading and trailing "." and "_" are stripped
SafeChars ==
    {CharAt(UpperLetters, k) : k \in 1..Len(UpperLetters)}
        \cup {CharAt(LowerLetters, k) : k \in 1..Len(LowerLetters)}
        \cup Digit \cup {"_", ".", "-"}

RECURSIVE SepToSpace(_)
SepToSpace(name) ==
    IF name = "" THEN ""
    ELSE (IF Head(name) = "/" THEN " " ELSE Head(name)) \o SepToSpace(Tail(name))

\* s.split(): the words between runs of whitespace
RECURSIVE SplitWords(_, _)
SplitWords(s, word) ==
    IF s = "" THEN (IF word = "" THEN <<>> ELSE <<word>>)
    ELSE IF Head(s) \in PyWhitespace
         THEN (IF word = "" THEN <<>> ELSE <<word>>) \o SplitWords(Tail(s), "")
         ELSE SplitWords(Tail(s), word \o Head(s))

RECURSIVE JoinWith(_, _)
JoinWith(parts, sep) ==
    IF parts = <<>> THEN ""
    ELSE IF Len(parts) = 1 THEN parts[1]
    ELSE parts[1] \o sep \o JoinWith(Tail(parts), sep)

RECURSIVE KeepSafe(_)
KeepSafe(s) ==
    IF s = "" THEN ""
    ELSE (IF Head(s) \in SafeChars THEN Head(s) ELSE "") \o KeepSafe(Tail(s))

RECURSIVE StripDots(_)
StripDots(s) ==
    IF s = "" THEN ""
    ELSE IF Head(s) \in {".", "_"} THEN StripDots(Tail(s))
    ELSE IF CharAt(s, Len(s)) \in {".", "_"} THEN StripDots(SubSeq(s, 1, Len(s) - 1))
    ELSE s

secure_filename(filename) ==
    StripDots(KeepSafe(JoinWith(SplitWords(SepToSpace(filename), ""), "_")))

DigitChars == "0123456789"

\* str(n) for n >= 0
RECURSIVE IntToStr(_)
IntToStr(n) ==
    IF n < 10 THEN CharAt(DigitChars, n + 1)
    ELSE IntToStr(n \div 10) \o CharAt(DigitChars, (n % 10) + 1)

\* server.py 60-65: the path the upload is saved under
FilePath(filename, time) ==
    UPLOAD_FOLDER \o "/" \o IntToStr(time) \o "_" \o secure_filename(filename)

\* The completion service as the server sees it: an answer that depends on
\* the prompt alone.  This one reports the text it was given as the email.
Completion(prompt_text) == "{\"email\": \"" \o prompt_text \o "\"}"

\* query_resume(file_path), given what is at file_path when it is opened
QueryResume(exists, file) ==
    IF ~exists THEN ErrorRecord("No such file or directory")
    ELSE IF ~file.ok THEN ErrorRecord("No /Root object! - Is this really a PDF?")
    ELSE DecodeAndValidate(Completion(preprocess_resume_text(file.text))).v

\* ---- inputs of SpecServer ----
MaxTicks == 1

Requests == {1, 2}

\* an uploaded file: a PDF pdfplumber can read, with its text, or one it cannot
PdfFiles ==
    { [ok |-> TRUE,  text |-> "ann@x.io"],
      [ok |-> TRUE,  text |-> "bob@x.io"],
      [ok |-> FALSE, text |-> ""] }

Filenames == {"", "cv", "cv.txt", "cv.pdf", "../cv.pdf", "CV 1.PDF"}

RequestInputs ==
    {[has_pdf |-> FALSE, filename |-> "", pdf |-> [ok |-> FALSE, text |-> ""]]}
        \cup [has_pdf : {TRUE}, filename : Filenames, pdf : PdfFiles]

NoResponse == [status |-> 0, error |-> "", data |-> JNull]

InitServer ==
    /\ now = 1700000000
    /\ fs = [f \in {} |-> [ok |-> FALSE, text |-> ""]]
    /\ req \in [Requests -> RequestInputs]
    /\ rq = [r \in Requests |->
                [stage |-> "received", file_path |-> "", resume_data |-> JNull,
                 response |-> NoResponse]]
    /\ IdleContact /\ IdlePre /\ IdleParse

Respond(r, status, error, data) ==
    rq' = [rq EXCEPT ![r].stage = "responded",
                     ![r].response = [status |-> status, error |-> error, data |-> data]]

\* os.remove(path), an OSError swallowed
Removed(path) == [f \in (DOMAIN fs) \ {path} |-> fs[f]]

\* the clock reaches the next second
Tick ==
    /\ now - 1700000000 < MaxTicks
    /\ now' = now + 1
    /\ UNCHANGED <<fs, req, rq, notServer>>

\* server.py 37-41
SrvRejectNoPart(r) ==
    /\ rq[r].stage = "received"
    /\ ~req[r].has_pdf
    /\ Respond(r, 400, "No PDF file provided", JNull)
    /\ UNCHANGED <<now, fs, req, notServer>>

\* server.py 46-50
SrvRejectNoName(r) ==
    /\ rq[r].stage = "received"
    /\ req[r].has_pdf
    /\ req[r].filename = ""
    /\ Respond(r, 400, "No file selected", JNull)
    /\ UNCHANGED <<now, fs, req, notServer>>

\* server.py 53-57
SrvRejectType(r) ==
    /\ rq[r].stage = "received"
    /\ req[r].has_pdf
    /\ req[r].filename # ""
    /\ ~allowed_file(req[r].filename)
    /\ Respond(r, 400, "Invalid file type", JNull)
    /\ UNCHANGED <<now, fs, req, notServer>>

\* server.py 60-65: the clock is read and file_path built
SrvName(r) ==
    /\ rq[r].stage = "received"
    /\ req[r].has_pdf
    /\ req[r].filename # ""
    /\ allowed_file(req[r].filename)
    /\ rq' = [rq EXCEPT ![r].stage = "named",
                        ![r].file_path = FilePath(req[r].filename, now)]
    /\ UNCHANGED <<now, fs, req, notServer>>

\* server.py 66: file.save(file_path)
SrvSave(r) ==
    /\ rq[r].stage = "named"
    /\ fs' = [f \in (DOMAIN fs) \cup {rq[r].file_path} |->
                IF f = rq[r].file_path THEN req[r].pdf ELSE fs[f]]
    /\ rq' = [rq EXCEPT ![r].stage = "saved"]
    /\ UNCHANGED <<now, req, notServer>>

\* server.py 66, 83-94: file.save raises; file_path is removed, answer 500
SrvSaveFails(r) ==
    /\ rq[r].stage = "named"
    /\ fs' = Removed(rq[r].file_path)
    /\ Respond(r, 500, "Processing failed", JNull)
    /\ UNCHANGED <<now, req, notServer>>

\* server.py 69: parser.query_resume(file_path) opens the file and returns
SrvParse(r) ==
    /\ rq[r].stage = "saved"
    /\ LET exists == rq[r].file_path \in DOMAIN fs
       IN  rq' = [rq EXCEPT ![r].stage = "parsed",
                            ![r].resume_data =
                                QueryResume(exists, IF exists THEN fs[rq[r].file_path]
                                                    ELSE [ok |-> FALSE, text |-> ""])]
    /\ UNCHANGED <<now, fs, req, notServer>>

\* server.py 72-81: the file is removed and the record answered with 200
SrvRespond(r) ==
    /\ rq[r].stage = "parsed"
    /\ fs' = Removed(rq[r].file_path)
    /\ Respond(r, 200, "", rq[r].resume_data)
    /\ UNCHANGED <<now, req, notServer>>

NextServer ==
    \/ Tick
    \/ \E r \in Requests :
        \/ SrvRejectNoPart(r)
        \/ SrvRejectNoName(r)
        \/ SrvRejectType(r)
        \/ SrvName(r)
        \/ SrvSave(r)
        \/ SrvSaveFails(r)
        \/ SrvParse(r)
        \/ SrvRespond(r)

SpecServer == InitServer /\ [][NextServer]_vars

\* the input of request r passes the three checks of server.py 37-57
ValidUpload(r) ==
    /\ req[r].has_pdf
    /\ req[r].filename \in {"cv.pdf", "../cv.pdf", "CV 1.PDF"}

\* query_resume_fast caught an exception and returned the error record
ParsingFailed(r) == rq[r].resume_data.t = "dict" /\ DictHas(rq[r].resume_data, "error")

\* C7 as stated: 400 for a missing part, an empty filename or a non-pdf
\* extension, with no file saved and the parser not invoked; 200 when
\* processing succeeds; 500 on every processing failure (PDF extraction or any
\* other exception during parsing), the body being the shell record with an
\* error string field.
C7_FailureAnswers500 ==
    \A r \in Requests :
        rq[r].stage = "responded" =>
            /\ ~ValidUpload(r) =>
                    /\ rq[r].response.status = 400
                    /\ rq[r].file_path = ""
                    /\ rq[r].resume_data = JNull
            /\ (rq[r].resume_data.t = "dict" /\ ~ParsingFailed(r)) => rq[r].response.status = 200
            /\ ParsingFailed(r) =>
                    /\ rq[r].response.status = 500
                    /\ rq[r].response.data = rq[r].resume_data

\* C8 as stated: each response is what the request would have produced when
\* run alone: a 200 carries the record parsed from the request's own upload.
\* Stated for the runs in which every file.save succeeded.
C8_RequestsAreIndependent ==
    \A r \in Requests :
        ( /\ rq[r].stage = "responded"
          /\ rq[r].response.status = 200
          /\ \A o \in Requests : rq[o].response.status # 500 ) =>
            rq[r].response.data = QueryResume(TRUE, req[r].pdf)

====
